---------------------------- MODULE Spec2Model ----------------------------
(***************************************************************************)
(* A model of zillow_arv_calculator.py.                                    *)
(*                                                                         *)
(* The code is run by threads: Streamlit runs the script of each browser   *)
(* session in a thread of its own, and the memos of st.cache_data are      *)
(* shared by them all.  A step of a thread runs its code up to the next    *)
(* place where it waits: time.sleep(2) in fetch_zillow_page (line 34), or  *)
(* the memo of a key another thread is computing.  While a thread waits    *)
(* the clock moves and the other threads take their steps.                 *)
(*                                                                         *)
(* FnSpec applies the functions of the file, a call to a thread: the page  *)
(* fetcher, the target property extractor, the comp search and the median  *)
(* estimator, each as the text of its def reads.  MemoSpec makes calls of  *)
(* the three functions under @st.cache_data(ttl=3600) as the clock moves.  *)
(* HandlerSpec runs the statements of the page (lines 128-172) as they     *)
(* read, calling those functions.  Spec runs the file as it is: line 82 is *)
(* not an f-string Python accepts, so the file does not compile and a run  *)
(* ends before its first statement.                                        *)
(*                                                                         *)
(* Texts are TLA+ strings read character by character (Ch), so the regular *)
(* expressions of the source are matched as Python's re.search matches     *)
(* them: leftmost start, greedy repetition.  A float is the decimal its    *)
(* text denotes, kept exactly as [n, s] for n / 10^s (float("2.5") is      *)
(* [25, 1]), or an infinity, or nan; the numerals of the model's inputs    *)
(* have few enough digits for a double to tell them apart.                 *)
(***************************************************************************)
EXTENDS Integers, Sequences, FiniteSets, TLC

VARIABLES
    pc,             \* of each thread: the statement of the page it is at (idle before its first run)
    address,        \* of each thread: the text of the address input at its last run
    clicked,        \* of each thread: whether the button was pressed for its last run
    pos,            \* of each thread: where it waits inside a call, or Outside
    now,            \* the clock, in seconds
    runs,           \* how many runs of the file have begun
    geo_cache,      \* st.cache_data memo of geocode_address: address -> entry
    details_cache,  \* st.cache_data memo of get_property_details: address -> entry
    comps_cache,    \* st.cache_data memo of get_comps: argument tuple -> entry
    log,            \* of each thread: the events of its last run or call, in order
    msgs,           \* of each thread: the st.error / st.warning messages of its last run
    history,        \* the memoized calls MemoSpec has seen end: function, key, time, requests
    call,           \* of each thread: the call it makes or made, name and arguments
    ret             \* of each thread: what that call produced, or Pending

vars == <<pc, address, clicked, pos, now, runs, geo_cache, details_cache, comps_cache,
          log, msgs, history, call, ret>>
(***************************************************************************)
(* Bounds of the model.                                                    *)
(***************************************************************************)
MaxFrags == 2      \* fragments a modelled listing page is made of
MaxCards == 2      \* result cards on a modelled search page
MaxComps == 3      \* rows of a comp table handed to calculate_arv
MaxRuns == 3       \* runs of the file in one behaviour
MaxClicks == 2     \* runs of the handler in one behaviour
MaxCalls == 2      \* memoized calls in one behaviour
MaxTicks == 3      \* half-hour steps the clock takes

(***************************************************************************)
(* Program constants.                                                      *)
(***************************************************************************)
TTL == 3600        \* @st.cache_data(ttl=3600)
SLEEP == 2         \* time.sleep(2)
HTTP_OK == 200     \* response.status_code == 200

(***************************************************************************)
(* Python values.                                                          *)
(***************************************************************************)
Pending == [kind |-> "pending"]
Raise(e) == [kind |-> "raise", exc |-> e]
Return(x, m) == [kind |-> "return", value |-> x, msgs |-> m]

ErrorMsg(t) == [level |-> "error", text |-> t]
WarningMsg(t) == [level |-> "warning", text |-> t]

RECURSIVE Pow10(_)
Pow10(k) == IF k <= 0 THEN 1 ELSE 10 * Pow10(k - 1)

\* the float n / 10^s, written with the fewest decimals
RECURSIVE Float(_, _)
Float(n, s) ==
    IF s > 0 /\ n % 10 = 0 THEN Float(n \div 10, s - 1)
    ELSE [kind |-> "fin", n |-> n, s |-> s]

Zero == Float(0, 0)
Inf(sign) == [kind |-> "inf", n |-> sign, s |-> 0]
NaN == [kind |-> "nan", n |-> 0, s |-> 0]

None == [some |-> FALSE, v |-> Zero]
Some(x) == [some |-> TRUE, v |-> x]

(***************************************************************************)
(* Characters and text.  A character is one a TLA+ string can hold, those  *)
(* of Latin-1.                                                             *)
(***************************************************************************)
\* the characters of Latin-1 that \d matches and int() and float() read as digits
Digit == {"0", "1", "2", "3", "4", "5", "6", "7", "8", "9"}

\* the characters \s matches and str.split() and str.strip() take for white
\* space, those str.isspace() is true of: the blank, \t, \n, \r, \f, \v,
\* the four separators \x1c to \x1f, \x85 and \xa0
Separators == {"", "", "", ""}
Space == {" ", "\t", "\n", "\r", "\f", "", "", " "} \cup Separators

\* the white space int() and float() drop from the two ends of their text
NumSpace == Space \ Separators

Ch(s, i) == IF i >= 1 /\ i <= Len(s) THEN SubSeq(s, i, i) ELSE ""

StartsWith(s, i, lit) ==
    /\ i >= 1
    /\ i + Len(lit) - 1 <= Len(s)
    /\ SubSeq(s, i, i + Len(lit) - 1) = lit

\* the index just past the longest run of characters of C that starts at i
RECURSIVE RunEnd(_, _, _)
RunEnd(s, i, C) == IF Ch(s, i) \in C THEN RunEnd(s, i + 1, C) ELSE i

\* the index of the last character before the run of characters of C that ends at j
RECURSIVE RunStart(_, _, _)
RunStart(s, j, C) == IF Ch(s, j) \in C THEN RunStart(s, j - 1, C) ELSE j

DigitsEnd(s, i) == RunEnd(s, i, Digit)
SpacesEnd(s, i) == RunEnd(s, i, Space)

\* s without the characters of C at its two ends
StripOf(s, C) == SubSeq(s, RunEnd(s, 1, C), RunStart(s, Len(s), C))

\* lit in s
Contains(s, lit) == \E i \in 1..Len(s) : StartsWith(s, i, lit)

SetMin(S) == CHOOSE x \in S : \A y \in S : x <= y

DigitVal(c) == CHOOSE v \in 0..9 : Ch("0123456789", v + 1) = c

RECURSIVE DecVal(_)
DecVal(s) == IF s = "" THEN 0
             ELSE 10 * DecVal(SubSeq(s, 1, Len(s) - 1)) + DigitVal(Ch(s, Len(s)))

\* str.replace(c, '')
RECURSIVE Without(_, _)
Without(s, c) ==
    IF s = "" THEN ""
    ELSE IF Ch(s, 1) = c THEN Without(SubSeq(s, 2, Len(s)), c)
    ELSE Ch(s, 1) \o Without(SubSeq(s, 2, Len(s)), c)

\* the index just past the digits that start at i, single underscores
\* between two digits allowed (i itself when there is no digit at i)
RECURSIVE NumeralEnd(_, _)
NumeralEnd(s, i) ==
    IF Ch(s, i) \notin Digit THEN i
    ELSE IF Ch(s, i + 1) = "_" /\ Ch(s, i + 2) \in Digit THEN NumeralEnd(s, i + 2)
    ELSE NumeralEnd(s, i + 1)

\* int(text): [ok, v]; not ok is ValueError
IntOf(text) ==
    LET s == StripOf(text, NumSpace)
        b == IF Ch(s, 1) \in {"-", "+"} THEN 2 ELSE 1
        e == NumeralEnd(s, b)
        d == DecVal(Without(SubSeq(s, b, e - 1), "_"))
    IN  IF e > b /\ e = Len(s) + 1
        THEN [ok |-> TRUE, v |-> IF Ch(s, 1) = "-" THEN 0 - d ELSE d]
        ELSE [ok |-> FALSE, v |-> 0]

UpperLetters == "ABCDEFGHIJKLMNOPQRSTUVWXYZ"
LowerLetters == "abcdefghijklmnopqrstuvwxyz"

LowerCh(c) ==
    IF \E i \in 1..26 : Ch(UpperLetters, i) = c
    THEN Ch(LowerLetters, CHOOSE i \in 1..26 : Ch(UpperLetters, i) = c)
    ELSE c

\* s with its ASCII capitals in lower case (float() reads inf, infinity and
\* nan in whatever case they are written)
RECURSIVE Lower(_)
Lower(s) == IF s = "" THEN "" ELSE LowerCh(Ch(s, 1)) \o Lower(SubSeq(s, 2, Len(s)))

\* the float mant * 10^e10 of a text that float() accepts (ok), ValueError of another
FloatScaled(ok, mant, e10) ==
    IF ok
    THEN [ok |-> TRUE,
          v  |-> IF e10 >= 0 THEN Float(mant * Pow10(e10), 0) ELSE Float(mant, 0 - e10)]
    ELSE [ok |-> FALSE, v |-> Zero]

\* the digits ip before the point and fp after it have been read, up to fe:
\* an exponent may follow, and nothing after it
FloatExponent(s, sign, ip, fp, fe) ==
    LET exp == Ch(s, fe) \in {"e", "E"}
        xb  == IF exp /\ Ch(s, fe + 1) \in {"-", "+"} THEN fe + 2 ELSE fe + 1
        xe  == IF exp THEN NumeralEnd(s, xb) ELSE fe
        xv  == IF exp THEN DecVal(Without(SubSeq(s, xb, xe - 1), "_")) ELSE 0
    IN  FloatScaled((ip # "" \/ fp # "") /\ (exp => xe > xb) /\ xe = Len(s) + 1,
                    sign * DecVal(ip \o fp),
                    (IF exp /\ Ch(s, fe + 1) = "-" THEN 0 - xv ELSE xv) - Len(fp))

\* the digits from b end at ie: a point and more digits may follow
FloatDigits(s, sign, b, ie) ==
    LET dot == Ch(s, ie) = "."
        fe  == IF dot THEN NumeralEnd(s, ie + 1) ELSE ie
    IN  FloatExponent(s, sign, Without(SubSeq(s, b, ie - 1), "_"),
                      IF dot THEN Without(SubSeq(s, ie + 1, fe - 1), "_") ELSE "", fe)

\* float() of a text without white space at its ends: a sign, then inf,
\* infinity or nan in any case, or digits with a point anywhere among them
\* and an exponent after them
FloatOfStripped(s) ==
    LET sign == IF Ch(s, 1) = "-" THEN 0 - 1 ELSE 1
        b    == IF Ch(s, 1) \in {"-", "+"} THEN 2 ELSE 1
        word == Lower(SubSeq(s, b, Len(s)))
    IN  IF word \in {"inf", "infinity"} THEN [ok |-> TRUE, v |-> Inf(sign)]
        ELSE IF word = "nan" THEN [ok |-> TRUE, v |-> NaN]
        ELSE FloatDigits(s, sign, b, NumeralEnd(s, b))

\* float(text): [ok, v]; not ok is ValueError
FloatOf(text) == FloatOfStripped(StripOf(text, NumSpace))

(***************************************************************************)
(* The regular expressions of get_property_details.  Each search returns   *)
(* [found, group]: the first group of the leftmost match.                  *)
(***************************************************************************)
NoMatch == [found |-> FALSE, group |-> ""]
Match(g) == [found |-> TRUE, group |-> g]

\* where the leftmost match starts, I being the starts of the matches (0: no match)
Leftmost(I) == IF I = {} THEN 0 ELSE SetMin(I)

\* end of \d+(?:\.\d+)? from i (i itself when \d+ fails)
DecimalEnd(s, i) ==
    LET j == DigitsEnd(s, i)
    IN  IF j > i /\ Ch(s, j) = "." /\ DigitsEnd(s, j + 1) > j + 1
        THEN DigitsEnd(s, j + 1) ELSE j

\* end of (?:,\d{3})* from j
RECURSIVE GroupsEnd(_, _)
GroupsEnd(s, j) ==
    IF Ch(s, j) = "," /\ DigitsEnd(s, j + 1) >= j + 4
    THEN GroupsEnd(s, j + 4) ELSE j

\* end of \d+(?:,\d{3})* from i (i itself when \d+ fails)
GroupedEnd(s, i) ==
    LET j == DigitsEnd(s, i) IN IF j > i THEN GroupsEnd(s, j) ELSE i

\* re.search(r'(\d+(?:\.\d+)?)\s*<unit>', s)
SearchCount(s, unit) ==
    LET At(i) == /\ DecimalEnd(s, i) > i
                 /\ StartsWith(s, SpacesEnd(s, DecimalEnd(s, i)), unit)
        Group(i) == SubSeq(s, i, DecimalEnd(s, i) - 1)
        m == Leftmost({i \in 1..Len(s) : At(i)})
    IN  IF m = 0 THEN NoMatch ELSE Match(Group(m))

\* re.search(r'(\d+(?:,\d{3})*)\s*sqft', s)
SearchSqft(s) ==
    LET At(i) == /\ GroupedEnd(s, i) > i
                 /\ StartsWith(s, SpacesEnd(s, GroupedEnd(s, i)), "sqft")
        Group(i) == SubSeq(s, i, GroupedEnd(s, i) - 1)
        m == Leftmost({i \in 1..Len(s) : At(i)})
    IN  IF m = 0 THEN NoMatch ELSE Match(Group(m))

\* re.search(r'lot:\s*(\d+(?:,\d{3})*)', s)
SearchLot(s) ==
    LET B(i) == SpacesEnd(s, i + 4)
        At(i) == StartsWith(s, i, "lot:") /\ GroupedEnd(s, B(i)) > B(i)
        Group(i) == SubSeq(s, B(i), GroupedEnd(s, B(i)) - 1)
        m == Leftmost({i \in 1..Len(s) : At(i)})
    IN  IF m = 0 THEN NoMatch ELSE Match(Group(m))

\* re.search(r'built\s*(\d{4})', s)
SearchBuilt(s) ==
    LET B(i) == SpacesEnd(s, i + 5)
        At(i) == StartsWith(s, i, "built") /\ DigitsEnd(s, B(i)) >= B(i) + 4
        Group(i) == SubSeq(s, B(i), B(i) + 3)
        m == Leftmost({i \in 1..Len(s) : At(i)})
    IN  IF m = 0 THEN NoMatch ELSE Match(Group(m))

\* re.search(r'"<name>":\s*([\d.-]+)', s)
SearchCoord(s, name) ==
    LET key == "\"" \o name \o "\":"
        C == Digit \cup {".", "-"}
        B(i) == SpacesEnd(s, i + Len(key))
        At(i) == StartsWith(s, i, key) /\ RunEnd(s, B(i), C) > B(i)
        Group(i) == SubSeq(s, B(i), RunEnd(s, B(i), C) - 1)
        m == Leftmost({i \in 1..Len(s) : At(i)})
    IN  IF m = 0 THEN NoMatch ELSE Match(Group(m))

(***************************************************************************)
(* fetch_zillow_page.  A response is [status, text]; the call returns the  *)
(* text and the messages it showed.  The call is two steps of its thread:  *)
(* it goes to sleep at line 34, and when its two seconds are over it sends *)
(* the request and returns (lines 35-39).                                  *)
(***************************************************************************)
FetchError == ErrorMsg("Failed to fetch")

fetch_zillow_page(resp) ==
    IF resp.status = HTTP_OK
    THEN [text |-> resp.text, msgs |-> <<>>]
    ELSE [text |-> "", msgs |-> <<FetchError>>]

\* line 34: when a sleep begun at t is over
FetchDelay(t) == t + SLEEP

Event(ev, fn) == [ev |-> ev, fn |-> fn]

\* a fetcher that requests at once, without the sleep
NoSleepEvents == <<>>

\* line 34: the fetcher goes to sleep
SleepEvents == <<Event("sleep", "fetch_zillow_page")>>

\* line 35: the fetcher sends its request
RequestEvents == <<Event("GET", "fetch_zillow_page")>>

(***************************************************************************)
(* get_property_details, from the response its fetch gets.                 *)
(***************************************************************************)
EmptyDict == << >>

\* the conversion without its "if re.search(...) else 0" guard
IntFieldUnguarded(m) == IF m.found THEN IntOf(m.group) ELSE [ok |-> FALSE, v |-> 0]

\* int(re.search(...).group(1)) if re.search(...) else 0
IntField(m) == IF m.found THEN IntOf(m.group) ELSE [ok |-> TRUE, v |-> 0]

\* int(re.search(...).group(1).replace(',', '')) if re.search(...) else 0
IntFieldCommas(m) ==
    IF m.found THEN IntOf(Without(m.group, ",")) ELSE [ok |-> TRUE, v |-> 0]

\* float(m.group(1)) if m else None
CoordField(m) ==
    IF m.found
    THEN [ok |-> FloatOf(m.group).ok, v |-> Some(FloatOf(m.group).v)]
    ELSE [ok |-> TRUE, v |-> None]

PartialWarning == WarningMsg("Partial details fetched")

\* not all([beds, baths, sq_ft])
IsPartial(beds, baths, sq_ft) == beds = 0 \/ baths = 0 \/ sq_ft = 0

get_property_details(addr, resp) ==
    LET f          == fetch_zillow_page(resp)
        html       == f.text
        beds       == IntField(SearchCount(html, "bd"))
        baths      == IntField(SearchCount(html, "ba"))
        sq_ft      == IntFieldCommas(SearchSqft(html))
        lot_size   == IntFieldCommas(SearchLot(html))
        year_built == IntField(SearchBuilt(html))
        lat        == CoordField(SearchCoord(html, "latitude"))
        lon        == CoordField(SearchCoord(html, "longitude"))
    IN  IF html = "" THEN Return(EmptyDict, f.msgs)
        ELSE IF ~(beds.ok /\ baths.ok /\ sq_ft.ok /\ lot_size.ok
                  /\ year_built.ok /\ lat.ok /\ lon.ok)
        THEN Raise("ValueError")
        ELSE Return([address    |-> addr,
                     beds       |-> beds.v,
                     baths      |-> baths.v,
                     sq_ft      |-> sq_ft.v,
                     lot_size   |-> lot_size.v,
                     year_built |-> year_built.v,
                     latitude   |-> lat.v,
                     longitude  |-> lon.v],
                    f.msgs \o (IF IsPartial(beds.v, baths.v, sq_ft.v)
                               THEN <<PartialWarning>> ELSE <<>>))

(***************************************************************************)
(* get_comps after its fetch (lines 86-116).  A search response carries    *)
(* its text and, as soup, what BeautifulSoup(html, 'lxml') makes of it: the *)
(* <article> elements in page order, each [id, nodes], a node being        *)
(* [tag, text] with tag "address", a span's data-test value, or "text".    *)
(***************************************************************************)
Node(tag, text) == [tag |-> tag, text |-> text]
Article(id, nodes) == [id |-> id, nodes |-> nodes]

\* re.compile(r'zpid_\d+') searched in the id attribute
IsListingId(id) ==
    \E i \in 1..Len(id) : StartsWith(id, i, "zpid_") /\ DigitsEnd(id, i + 5) > i + 5

RECURSIVE SelectArticles(_)
SelectArticles(arts) ==
    IF arts = <<>> THEN <<>>
    ELSE (IF IsListingId(Head(arts).id) THEN <<Head(arts)>> ELSE <<>>)
         \o SelectArticles(Tail(arts))

\* soup.find_all('article', {'id': re.compile(r'zpid_\d+')})
find_all(soup) == SelectArticles(soup)

\* card.find(...): the first node with the tag, as [found, text]
Find(card, tag) ==
    LET I == {i \in 1..Len(card.nodes) : card.nodes[i].tag = tag}
    IN  IF I = {} THEN [found |-> FALSE, text |-> ""]
        ELSE [found |-> TRUE, text |-> card.nodes[SetMin(I)].text]

\* card.text: the texts of the nodes, joined
RECURSIVE JoinTexts(_)
JoinTexts(nodes) ==
    IF nodes = <<>> THEN "" ELSE Head(nodes).text \o JoinTexts(Tail(nodes))

CardText(card) == JoinTexts(card.nodes)

\* text.split()[0]: [ok, tok]; not ok is IndexError
FirstToken(s) ==
    LET b == SpacesEnd(s, 1)
        I == {i \in b..(Len(s) + 1) : Ch(s, i) \in Space \/ i = Len(s) + 1}
    IN  IF b > Len(s) THEN [ok |-> FALSE, tok |-> ""]
        ELSE [ok |-> TRUE, tok |-> SubSeq(s, b, SetMin(I) - 1)]

\* re.search(r'(\d+) sqft', s)
SearchCardSqft(s) ==
    LET At(i) == DigitsEnd(s, i) > i /\ StartsWith(s, DigitsEnd(s, i), " sqft")
        Group(i) == SubSeq(s, i, DigitsEnd(s, i) - 1)
        m == Leftmost({i \in 1..Len(s) : At(i)})
    IN  IF m = 0 THEN NoMatch ELSE Match(Group(m))

\* re.search(r'Sold:\s*\$([\d,]+)', s)
SearchSoldPrice(s) ==
    LET C == Digit \cup {","}
        B(i) == SpacesEnd(s, i + 5) + 1
        At(i) == /\ StartsWith(s, i, "Sold:")
                 /\ Ch(s, SpacesEnd(s, i + 5)) = "$"
                 /\ RunEnd(s, B(i), C) > B(i)
        Group(i) == SubSeq(s, B(i), RunEnd(s, B(i), C) - 1)
        m == Leftmost({i \in 1..Len(s) : At(i)})
    IN  IF m = 0 THEN NoMatch ELSE Match(Group(m))

\* int(node.text.split()[0]) if node else 0, and the same with float:
\* [exc, v], exc being "" or the exception raised
TokenField(node, type, default) ==
    LET token == FirstToken(node.text)
        x == IF type = "int" THEN IntOf(token.tok) ELSE FloatOf(token.tok)
    IN  IF ~node.found THEN [exc |-> "", v |-> default]
        ELSE IF ~token.ok THEN [exc |-> "IndexError", v |-> default]
        ELSE IF ~x.ok THEN [exc |-> "ValueError", v |-> default]
        ELSE [exc |-> "", v |-> x.v]

\* the exception of the first of the fields, in the order they are computed, that raises
FirstExc(fields) ==
    LET I == {i \in 1..Len(fields) : fields[i] # ""}
    IN  IF I = {} THEN "" ELSE fields[SetMin(I)]

\* lines 95-102: the fields read from one card; exc is "" or the exception raised
ParseCard(card) ==
    LET addr       == Find(card, "address")
        dateN      == Find(card, "listing-card-sold-date")
        beds_comp  == TokenField(Find(card, "property-beds"), "int", 0)
        baths_comp == TokenField(Find(card, "property-baths"), "float", Zero)
        sq_ft_comp == IntFieldCommas(SearchCardSqft(CardText(card)))
        sold_price == IntFieldCommas(SearchSoldPrice(CardText(card)))
    IN  [exc          |-> FirstExc(<<beds_comp.exc, baths_comp.exc,
                                     IF sq_ft_comp.ok THEN "" ELSE "ValueError",
                                     IF sold_price.ok THEN "" ELSE "ValueError">>),
         address_comp |-> IF addr.found THEN StripOf(addr.text, Space) ELSE "",
         beds_comp    |-> beds_comp.v,
         baths_comp   |-> baths_comp.v,
         sq_ft_comp   |-> sq_ft_comp.v,
         sold_date    |-> IF dateN.found THEN dateN.text ELSE "",
         sold_price   |-> sold_price.v]

Abs(x) == IF x < 0 THEN 0 - x ELSE x

\* abs(x - k) <= 1 of a float x and a whole number k; false of an infinity and of nan
WithinOne(x, k) == x.kind = "fin" /\ Abs(x.n - k * Pow10(x.s)) <= Pow10(x.s)

\* lines 105-106.  0.8 * sq_ft and 1.2 * sq_ft are compared in tenths (a
\* product that is a whole number is exact in floating point, one that is
\* not is at least 0.2 away from every integer).
IsSimilar(e, beds, baths, sq_ft) ==
    /\ Abs(e.beds_comp - beds) <= 1
    /\ WithinOne(e.baths_comp, baths)
    /\ 8 * sq_ft <= 10 * e.sq_ft_comp
    /\ 10 * e.sq_ft_comp <= 12 * sq_ft
    /\ e.sold_date # ""
    /\ Contains(e.sold_date, "2025")

\* lines 107-114
CompRow(e) ==
    ("Address" :> e.address_comp) @@ ("Beds" :> e.beds_comp) @@
    ("Baths" :> e.baths_comp) @@ ("Sq Ft" :> e.sq_ft_comp) @@
    ("Sold Date" :> e.sold_date) @@ ("Sold Price" :> e.sold_price)

\* the loop of lines 94-114 over the cards: the rows appended, in order
RECURSIVE CompsLoop(_, _, _, _)
CompsLoop(cards, beds, baths, sq_ft) ==
    IF cards = <<>> THEN <<>>
    ELSE (IF IsSimilar(ParseCard(Head(cards)), beds, baths, sq_ft)
          THEN <<CompRow(ParseCard(Head(cards)))>> ELSE <<>>)
         \o CompsLoop(Tail(cards), beds, baths, sq_ft)

\* pd.DataFrame(rows): the columns are the keys of the rows
DataFrame(rows) ==
    [columns |-> IF rows = <<>> THEN {} ELSE DOMAIN rows[1], rows |-> rows]

\* df.empty
IsEmptyFrame(df) == df.rows = <<>> \/ df.columns = {}

\* the exception the loop of lines 94-114 ends with: that of the first card, in
\* page order, with a field that raises ("" when no card has one)
RECURSIVE LoopExc(_)
LoopExc(cards) ==
    IF cards = <<>> THEN ""
    ELSE IF ParseCard(Head(cards)).exc # "" THEN ParseCard(Head(cards)).exc
    ELSE LoopExc(Tail(cards))

(***************************************************************************)
(* calculate_arv.                                                          *)
(***************************************************************************)
RECURSIVE Insert(_, _)
Insert(x, s) ==
    IF s = <<>> THEN <<x>>
    ELSE IF x <= Head(s) THEN <<x>> \o s
    ELSE <<Head(s)>> \o Insert(x, Tail(s))

RECURSIVE Sorted(_)
Sorted(s) == IF s = <<>> THEN <<>> ELSE Insert(Head(s), Sorted(Tail(s)))

\* a median that takes the upper middle value of an even number of values
MedianUpperMiddle(xs) == Float(Sorted(xs)[Len(xs) \div 2 + 1], 0)

\* Series.median() of whole numbers, a float: the middle of the sorted
\* values, or the mean of the two middle ones
Median(xs) ==
    LET s == Sorted(xs)
        n == Len(xs)
    IN  IF n % 2 = 1 THEN Float(s[(n + 1) \div 2], 0)
        ELSE Float(5 * (s[n \div 2] + s[n \div 2 + 1]), 1)

calculate_arv(comps_df) ==
    IF ~IsEmptyFrame(comps_df) /\ "Sold Price" \in comps_df.columns
    THEN Median([i \in 1..Len(comps_df.rows) |-> comps_df.rows[i]["Sold Price"]])
    ELSE Zero

(***************************************************************************)
(* get_comps up to its fetch (lines 82-85): the search URL.  UrlTemplate   *)
(* is the text between f" and ".format( on line 82, character for          *)
(* character.                                                              *)
(***************************************************************************)
UrlTemplate ==
    "https://www.zillow.com/homes/{lat},{lon}_rb/?searchQueryState={{" \o
    "%22pagination%22%3A{{}}%2C%22isMapVisible%22%3Atrue%2C%22filterS" \o
    "tate%22%3A{{%22sort%22%3A{{%22value%22%3A%22globalrelevanceex%22" \o
    "}}%2C%22ah%22%3A{{%22value%22%3Atrue}}%2C%22sold%22%3A{{%22value" \o
    "%22%3Atrue}}%2C%22rs%22%3A{{%22value%22%3Atrue}}%2C%22mf%22%3A{{" \o
    "%22value%22%3Afalse}}%2C%22fsba%22%3A{{%22value%22%3Afalse}}%2C%" \o
    "22fsbo%22%3A{{%22value%22%3Afalse}}%2C%22nc%22%3A{{%22value%22%3" \o
    "Afalse}}%2C%22cmsn%22%3A{{%22value%22%3Afalse}}%2C%22auc%22%3A{{" \o
    "%22value%22%3Afalse}}%2C%22fore%22%3A{{%22value%22%3Afalse}}%2C%" \o
    "22pmf%22%3A{{%22value%22%3Afalse}}%2C%22pf%22%3A{{%22value%22%3A" \o
    "false}}%2C%22mp%22%3A{{%22value%22%3Afalse}}%2C%22con%22%3A{{%22" \o
    "value%22%3Afalse}}%2C%22land%22%3A{{%22value%22%3Afalse}}%2C%22t" \o
    "ow%22%3A{{%22value%22%3Afalse}}%2C%22apa%22%3A{{%22value%22%3Afa" \o
    "lse}}%2C%22apco%22%3A{{%22value%22%3Afalse}}%2C%22manu%22%3A{{%2" \o
    "2value%22%3Afalse}}%2C%22house%22%3A{{%22value%22%3Atrue}}%2C%22" \o
    "town%22%3A{{%22value%22%3Atrue}}%2C%22cond%22%3A{{%22value%22%3A" \o
    "true}}%2C%22aprt%22%3A{{%22value%22%3Atrue}}%2C%22mlt%22%3A{{%22" \o
    "value%22%3Afalse}}%2C%22man%22%3A{{%22value%22%3Afalse}}%2C%22lo" \o
    "t%22%3A{{%22value%22%3Afalse}}%2C%22room%22%3A{{%22value%22%3Afa" \o
    "lse}}%2C%22sf%22%3A{{%22value%22%3Afalse}}%2C%22ha%22%3A{{%22val" \o
    "ue%22%3Afalse}}%2C%22bd%22%3A{{%22value%22%3A%22{0}%22}}%2C%22ba" \o
    "%22%3A{{%22value%22%3A%22{1}%22}}%2C%22sqft%22%3A{{%22value%22%3" \o
    "A%22{2}%22}}%2C%22lot%22%3A{{%22value%22%3A%22{3}%22}}%2C%22yb%2" \o
    "2%3A{{%22value%22%3A%22{4}%22}}%2C%22fr%22%3A{{%22value%22%3Atru" \o
    "e}}%2C%22fs%22%3A{{%22value%22%3A30}}%2C%22fsbo%22%3A{{%22value%" \o
    "22%3Afalse}}%2C%22cmsn%22%3A{{%22value%22%3Afalse}}%2C%22auc%22%" \o
    "3A{{%22value%22%3Afalse}}%2C%22fore%22%3A{{%22value%22%3Afalse}}" \o
    "%2C%22pmf%22%3A{{%22value%22%3Afalse}}%2C%22pf%22%3A{{%22value%2" \o
    "2%3Afalse}}%2C%22mp%22%3A{{%22value%22%3Afalse}}%2C%22fr%22%3A{{" \o
    "%22value%22%3Atrue}}%2C%22rh%22%3A{{%22value%22%3Atrue}}}}%2C%22" \o
    "isListVisible%22%3Atrue%2C%22mapBounds%22%3A{{%22west%22%3A{5}%2" \o
    "C%22east%22%3A{6}%2C%22south%22%3A{7}%2C%22north%22%3A{8}}}}%2C%" \o
    "22usersSearchTerm%22%3A%22{9}%22}}"

\* the index of the first brace at or after i (Len(s) + 1 when there is none)
RECURSIVE NextBrace(_, _)
NextBrace(s, i) ==
    IF i > Len(s) \/ Ch(s, i) \in {"{", "}"} THEN i ELSE NextBrace(s, i + 1)

\* How Python reads the braces of an f-string from index i: {{ and }} are
\* literal braces, { opens a replacement field that runs to the next },
\* and a } on its own is "f-string: single '}' is not allowed".
RECURSIVE FStringScan(_, _)
FStringScan(s, i) ==
    IF i > Len(s) THEN "ok"
    ELSE IF Ch(s, i) = "{"
         THEN IF Ch(s, i + 1) = "{" THEN FStringScan(s, i + 2)
              ELSE LET j == RunEnd(s, i + 1, Digit \cup {"l", "a", "t", "o", "n"})
                   IN  IF Ch(s, j) = "}" /\ j > i + 1
                       THEN FStringScan(s, j + 1) ELSE "SyntaxError"
    ELSE IF Ch(s, i) = "}"
         THEN IF Ch(s, i + 1) = "}" THEN FStringScan(s, i + 2) ELSE "SyntaxError"
    ELSE FStringScan(s, NextBrace(s, i))

\* the number written in the replacement field that follows key in the template
FieldAfter(key) ==
    LET i == SetMin({k \in 1..Len(UrlTemplate) : StartsWith(UrlTemplate, k, key)})
        b == i + Len(key)
    IN  DecVal(SubSeq(UrlTemplate, b, DigitsEnd(UrlTemplate, b) - 1))

Slots == {"bd", "ba", "sqft", "lot", "yb", "west", "east", "south", "north",
          "usersSearchTerm"}

\* the field number line 82 writes in each slot of the query
SlotField(slot) ==
    IF slot \in {"west", "east", "south", "north"}
    THEN FieldAfter("%22" \o slot \o "%22%3A{")
    ELSE IF slot = "usersSearchTerm"
    THEN FieldAfter("%22usersSearchTerm%22%3A%22{")
    ELSE FieldAfter("%22" \o slot \o "%22%3A{{%22value%22%3A%22{")

\* the values a URL carries: a whole number lo, the text of the two floats
\* 0.8 * lo and 1.2 * lo, the float x + d / 100 (d in lo), or a text
IntVal(n) == [type |-> "int", lo |-> n, x |-> Zero, s |-> ""]
RangeVal(n) == [type |-> "range", lo |-> n, x |-> Zero, s |-> ""]
FloatVal(x, d) == [type |-> "float", lo |-> d, x |-> x, s |-> ""]
StrVal(s) == [type |-> "str", lo |-> 0, x |-> Zero, s |-> s]

\* lines 83-84: the arguments of .format, in order (argument k is FormatArgs[k + 1])
FormatArgs(t, addr) ==
    << IntVal(t.beds), IntVal(t.baths),
       RangeVal(t.sq_ft), RangeVal(t.lot_size),
       IntVal(t.year_built - 10), IntVal(t.year_built + 10),
       FloatVal(t.lon.v, 0 - 1), FloatVal(t.lon.v, 1),
       FloatVal(t.lat.v, 0 - 1), FloatVal(t.lat.v, 1),
       StrVal(addr) >>

\* what str.format puts in a slot: the argument its field number names
SlotValue(t, addr, slot) == FormatArgs(t, addr)[SlotField(slot) + 1]

\* No replacement field of the template holds a '%', so each stretch of it
\* from one '%' to the next is read on its own.
RECURSIVE NextPercent(_, _)
NextPercent(s, i) ==
    IF i > Len(s) \/ Ch(s, i) = "%" THEN i ELSE NextPercent(s, i + 1)

Stretches(s) ==
    {SubSeq(s, i, NextPercent(s, i + 1) - 1) :
        i \in {1} \cup {k \in 1..Len(s) : Ch(s, k) = "%"}}

FStringOk(s) == \A x \in Stretches(s) : FStringScan(x, 1) = "ok"

\* whether line 82 is an f-string Python accepts
TemplateOk == FStringOk(UrlTemplate)

\* lines 82-85.  The arithmetic on an absent coordinate is a TypeError.
search_url(t, addr) ==
    IF ~TemplateOk THEN Raise("SyntaxError")
    ELSE IF ~t.lat.some \/ ~t.lon.some THEN Raise("TypeError")
    ELSE Return([slot \in Slots |-> SlotValue(t, addr, slot)], <<>>)

\* get_comps, t being its arguments and resp what its fetch would get: the
\* URL (lines 82-85), then the fetch and the cards (lines 86-116)
get_comps(t, addr, resp) ==
    LET u     == search_url(t, addr)
        f     == fetch_zillow_page(resp)
        cards == find_all(resp.soup)
    IN  IF u.kind = "raise" THEN u
        ELSE IF f.text = "" THEN Return(DataFrame(<<>>), f.msgs)
        ELSE IF LoopExc(cards) # "" THEN Raise(LoopExc(cards))
        ELSE Return(DataFrame(CompsLoop(cards, t.beds, t.baths, t.sq_ft)), f.msgs)

\* whether a call of get_comps gets as far as its fetch (line 86)
CompsFetches(t, addr) == search_url(t, addr).kind = "return"

(***************************************************************************)
(* The inputs of the model.                                                *)
(***************************************************************************)
SeqsUpTo(S, n) == UNION {[1..k -> S] : k \in 0..n}

Addresses == {"12 Oak St", "7 Elm Ave"}

ErrorStatuses == {404, 503}

\* what a listing page may be made of
Fragments ==
    { "3 bd 2 ba 1,500 sqft",
      "4 bd",
      "2.5 ba",
      "0 bd 1 ba 980sqft",
      "-3 bd -2 ba",
      "lot: 5,000 built 1990",
      "\"latitude\": 40.7,\"longitude\": -73.95",
      "\"latitude\": 40.7",
      "\"longitude\":-73.95",
      "\"latitude\": 1.2.3",
      "\"latitude\": 40.705",
      "3\rbd 2\fba 1,200 sqft",
      "for sale by owner",
      "Built in 1990, lot 0.25 acres" }

RECURSIVE JoinFragments(_)
JoinFragments(fs) ==
    IF fs = <<>> THEN ""
    ELSE IF Len(fs) = 1 THEN fs[1]
    ELSE fs[1] \o " | " \o JoinFragments(Tail(fs))

Response(status, text, soup) == [status |-> status, text |-> text, soup |-> soup]

ListingResponses ==
    {Response(HTTP_OK, JoinFragments(fs), <<>>) : fs \in SeqsUpTo(Fragments, MaxFrags)}
    \cup {Response(st, "denied", <<>>) : st \in ErrorStatuses}

Card(id, beds, baths, rest, date) ==
    Article(id, <<Node("address", " 5 Pine Rd "), Node("property-beds", beds),
                  Node("property-baths", baths), Node("text", rest)>>
                \o (IF date = "" THEN <<>>
                    ELSE <<Node("listing-card-sold-date", date)>>))

\* what a search page may be made of
Cards ==
    { Card("zpid_11", "3 bds", "2 ba", "1500 sqft Sold: $250,000", "Sold 01/05/2025"),
      Card("zpid_12", "5 bds", "2.5 ba", "1400 sqft Sold: $300,000", "Sold 02/11/2025"),
      Card("zpid_13", "4 bds", "3 ba", "1800 sqft Sold: $200,000", "Sold 03/2025"),
      Card("zpid_14", "3 bds", "3.5 ba", "1200 sqft Sold: $150,000", "Sold 04/2025"),
      Card("zpid_15", "2 bds", "1 ba", "1199 sqft Sold: $100,000", "Sold 05/2025"),
      Card("zpid_16", "3 bds", "2 ba", "1500 sqft Sold: $275,000", "Sold 12/30/2024"),
      Card("zpid_17", "3 bds", "2 ba", "1500 sqft Sold: $225,000", ""),
      Card("ad_18", "3 bds", "2 ba", "1500 sqft Sold: $999,000", "Sold 06/2025"),
      Card("zpid_19", "-- bds", "2 ba", "1500 sqft Sold: $260,000", "Sold 07/2025"),
      Card("zpid_20", "1_0 bds", "1e0 ba", "1500 sqft Sold: $210,000", "Sold 08/2025"),
      Card("zpid_21", "   ", "nan", "1500 sqft Sold: $220,000", "Sold 09/2025"),
      Card("zpid_22", "3\rbds", "+2.5\fba", "1500 sqft Sold:\r$240,000", "Sold 2025"),
      Card("zpid_23", "4", "inf", "1500 sqft Sold: $230,000", "Sold 12/2025") }

SearchResponses ==
    {Response(HTTP_OK, "<html>", p) : p \in SeqsUpTo(Cards, MaxCards)}
    \cup {Response(HTTP_OK, "", <<>>)}
    \cup {Response(st, "denied", <<>>) : st \in ErrorStatuses}

Target(lat, lon, beds, baths, sq_ft, lot_size, year_built) ==
    [lat |-> lat, lon |-> lon, beds |-> beds, baths |-> baths, sq_ft |-> sq_ft,
     lot_size |-> lot_size, year_built |-> year_built]

Targets ==
    { Target(Some(Float(407, 1)), Some(Float(0 - 7395, 2)), 3, 2, 1500, 5000, 1990),
      Target(Some(Float(407, 1)), Some(Float(0 - 7395, 2)), 4, 3, 1000, 0, 0),
      Target(None, None, 0, 0, 0, 0, 0) }

PriceRow(p) == ("Address" :> "5 Pine Rd") @@ ("Sold Price" :> p)
PlainRow(p) == ("Address" :> "5 Pine Rd") @@ ("Beds" :> 3)

Frames ==
    {DataFrame([i \in 1..Len(ps) |-> PriceRow(ps[i])]) : ps \in SeqsUpTo({100000, 200000, 250000, 300000}, MaxComps)}
    \cup {DataFrame([i \in 1..Len(ps) |-> PlainRow(ps[i])]) : ps \in SeqsUpTo({0}, MaxComps)}

(***************************************************************************)
(* geocode_address.  What geolocator.geocode does is the environment's:    *)
(* a location, no location, or an exception.                               *)
(***************************************************************************)
GeocodeError == ErrorMsg("Could not geocode address.")

GeoOutcomes ==
    { [kind |-> "location", latitude |-> Float(407, 1), longitude |-> Float(0 - 7395, 2)],
      [kind |-> "location", latitude |-> Zero, longitude |-> Float(1234, 2)],
      [kind |-> "none", latitude |-> Zero, longitude |-> Zero],
      [kind |-> "exception", latitude |-> Zero, longitude |-> Zero] }

geocode_address(o) ==
    IF o.kind = "location"
    THEN Return(<<Some(o.latitude), Some(o.longitude)>>, <<>>)
    ELSE IF o.kind = "none"
    THEN Return(<<None, None>>, <<GeocodeError>>)
    ELSE Return(<<None, None>>, <<>>)

(***************************************************************************)
(* Threads.  A thread is Outside, or inside a call at one of the two       *)
(* places where a call waits: asleep in time.sleep(2) until a time, or at  *)
(* the lock st.cache_data holds on a key whose value is being computed.    *)
(***************************************************************************)
Threads == {"A", "B"}

Outside == [at |-> "outside", until |-> 0]
Waiting == [at |-> "lock", until |-> 0]
Sleeping(t) == [at |-> "sleep", until |-> t]

NoCall == [fn |-> "none"]

\* nothing has run yet
Idle ==
    /\ pc = [th \in Threads |-> "idle"]
    /\ address = [th \in Threads |-> ""]
    /\ clicked = [th \in Threads |-> FALSE]
    /\ pos = [th \in Threads |-> Outside]
    /\ log = [th \in Threads |-> <<>>]
    /\ msgs = [th \in Threads |-> <<>>]
    /\ ret = [th \in Threads |-> Pending]
    /\ now = 0 /\ runs = 0 /\ history = <<>>
    /\ geo_cache = <<>> /\ details_cache = <<>> /\ comps_cache = <<>>

\* no thread has a call to make
Init == Idle /\ call = [th \in Threads |-> NoCall]

formVars == <<pc, address, clicked, runs, msgs>>
memoVars == <<geo_cache, details_cache, comps_cache>>

\* a second passes while a thread is asleep
Second ==
    /\ \E th \in Threads : pos[th].at = "sleep" /\ now < pos[th].until
    /\ now' = now + 1
    /\ UNCHANGED <<formVars, memoVars, history, pos, log, call, ret>>

(***************************************************************************)
(* Direct calls of the functions: each thread is given a call, and makes   *)
(* it.  The call of A is any of Calls; B makes none, or one that fetches   *)
(* a page meanwhile.                                                       *)
(***************************************************************************)
\* what the site may answer for a target's page
FullPage ==
    JoinFragments(<<"3 bd 2 ba 1,500 sqft", "lot: 5,000 built 1990",
                    "\"latitude\": 40.7,\"longitude\": -73.95">>)

MemoResponses ==
    { Response(HTTP_OK, FullPage, <<>>),
      Response(HTTP_OK, "3 bd 2.5 ba 1,500 sqft", <<>>),
      Response(HTTP_OK, "", <<>>),
      Response(404, "denied", <<>>) }

\* what the site may answer for a search
MemoSearchResponses ==
    { Response(HTTP_OK, "<html>",
               <<Card("zpid_11", "3 bds", "2 ba", "1500 sqft Sold: $250,000",
                      "Sold 01/05/2025")>>),
      Response(HTTP_OK, "", <<>>),
      Response(404, "denied", <<>>) }

Calls ==
    {[fn |-> "calculate_arv", comps_df |-> df] : df \in Frames}
    \cup {[fn |-> "geocode_address", address |-> "12 Oak St", outcome |-> o] :
            o \in GeoOutcomes}
    \cup {[fn |-> "fetch_zillow_page", resp |-> r] : r \in MemoResponses}
    \cup {[fn |-> "get_property_details", address |-> a, resp |-> r] :
            a \in {"12 Oak St"}, r \in ListingResponses}
    \cup {[fn |-> "get_comps", t |-> t, address |-> "12 Oak St", resp |-> r] :
            t \in Targets, r \in SearchResponses}

Meanwhile ==
    { NoCall,
      [fn |-> "get_property_details", address |-> "7 Elm Ave",
       resp |-> Response(404, "denied", <<>>)] }

FnInit ==
    /\ Idle
    /\ \E c \in Calls, d \in Meanwhile :
           call = [th \in Threads |-> IF th = "A" THEN c ELSE d]

CallCalculateArv(th) ==
    /\ call[th].fn = "calculate_arv" /\ ret[th] = Pending
    /\ ret' = [ret EXCEPT ![th] = Return(calculate_arv(call[th].comps_df), <<>>)]
    /\ UNCHANGED <<formVars, memoVars, history, pos, now, log, call>>

CallGeocodeAddress(th) ==
    /\ call[th].fn = "geocode_address" /\ ret[th] = Pending
    /\ ret' = [ret EXCEPT ![th] = geocode_address(call[th].outcome)]
    /\ UNCHANGED <<formVars, memoVars, history, pos, now, log, call>>

\* lines 32-34: the call goes to sleep
CallFetchZillowPage(th) ==
    /\ call[th].fn = "fetch_zillow_page" /\ ret[th] = Pending /\ pos[th] = Outside
    /\ pos' = [pos EXCEPT ![th] = Sleeping(FetchDelay(now))]
    /\ log' = [log EXCEPT ![th] = SleepEvents]
    /\ UNCHANGED <<formVars, memoVars, history, now, call, ret>>

\* lines 43-46, up to the sleep of the fetch
CallGetPropertyDetails(th) ==
    /\ call[th].fn = "get_property_details" /\ ret[th] = Pending /\ pos[th] = Outside
    /\ pos' = [pos EXCEPT ![th] = Sleeping(FetchDelay(now))]
    /\ log' = [log EXCEPT ![th] = SleepEvents]
    /\ UNCHANGED <<formVars, memoVars, history, now, call, ret>>

\* lines 82-86: the call ends at its URL statement, or goes on to the sleep
\* of its fetch
CallGetComps(th) ==
    /\ call[th].fn = "get_comps" /\ ret[th] = Pending /\ pos[th] = Outside
    /\ IF CompsFetches(call[th].t, call[th].address)
       THEN /\ pos' = [pos EXCEPT ![th] = Sleeping(FetchDelay(now))]
            /\ log' = [log EXCEPT ![th] = SleepEvents]
            /\ UNCHANGED ret
       ELSE /\ ret' = [ret EXCEPT ![th] = get_comps(call[th].t, call[th].address,
                                                     call[th].resp)]
            /\ UNCHANGED <<pos, log>>
    /\ UNCHANGED <<formVars, memoVars, history, now, call>>

\* what a call gives once its fetch has its response
Outcome(c, resp) ==
    IF c.fn = "fetch_zillow_page"
    THEN Return(fetch_zillow_page(resp).text, fetch_zillow_page(resp).msgs)
    ELSE IF c.fn = "get_property_details" THEN get_property_details(c.address, resp)
    ELSE get_comps(c.t, c.address, resp)

\* lines 35-39, and the rest of the function that asked for the page: the
\* thread has slept, sends its request, gets the response and returns
Request(th) ==
    /\ pos[th].at = "sleep" /\ now >= pos[th].until
    /\ pos' = [pos EXCEPT ![th] = Outside]
    /\ log' = [log EXCEPT ![th] = @ \o RequestEvents]
    /\ ret' = [ret EXCEPT ![th] = Outcome(call[th], call[th].resp)]
    /\ UNCHANGED <<formVars, memoVars, history, now, call>>

FnNext ==
    \/ Second
    \/ \E th \in Threads : CallCalculateArv(th)
    \/ \E th \in Threads : CallGeocodeAddress(th)
    \/ \E th \in Threads : CallFetchZillowPage(th)
    \/ \E th \in Threads : CallGetPropertyDetails(th)
    \/ \E th \in Threads : CallGetComps(th)
    \/ \E th \in Threads : Request(th)

FnSpec == FnInit /\ [][FnNext]_vars

(***************************************************************************)
(* @st.cache_data(ttl=3600): a memo of the returned values, keyed by the   *)
(* arguments and shared by the threads.  An entry is what the call         *)
(* returned, the messages it showed (shown again on a hit) and when it was *)
(* stored; a call that raises stores nothing.  A thread that misses        *)
(* computes the value holding the lock of its key: a thread that misses    *)
(* while another computes the same key waits for it, then reads the memo   *)
(* again.                                                                  *)
(***************************************************************************)
Entry(value, m, at) == [value |-> value, msgs |-> m, at |-> at]

\* the key has an entry that is less than ttl old
Hit(cache, key, t) == key \in DOMAIN cache /\ t - cache[key].at < TTL

Store(cache, key, e) ==
    [k \in DOMAIN cache \cup {key} |-> IF k = key THEN e ELSE cache[k]]

\* a call served from the memo: the stored value, its messages shown again
Replay(e) == Return(e.value, e.msgs)

\* the key of a memoized call
Key(c) == IF c.fn = "get_comps" THEN c.t ELSE c.address

\* a thread is computing the value of c's key: it holds the lock of the key
Computing(c) ==
    \E o \in Threads : pos[o].at = "sleep" /\ call[o].fn = c.fn /\ Key(call[o]) = Key(c)

\* the calls made so far, ended or not
Started == Len(history) + Cardinality({th \in Threads : pos[th] # Outside})

\* get_property_details(a) for each answer of the site, worked out once
DetailsOutcomes ==
    [a \in Addresses |-> [resp \in MemoResponses |-> get_property_details(a, resp)]]

\* geocode_address(a) under its memo: the stored value on a hit, else the
\* lookup, whose value is stored
MemoGeocodeAddress(th, a) ==
    /\ pos[th] = Outside
    /\ call' = [call EXCEPT ![th] = [fn |-> "geocode_address", address |-> a, at |-> now]]
    /\ IF Hit(geo_cache, a, now)
       THEN /\ ret' = [ret EXCEPT ![th] = Replay(geo_cache[a])]
            /\ UNCHANGED geo_cache
       ELSE \E o \in GeoOutcomes : \E r \in {geocode_address(o)} :
            /\ ret' = [ret EXCEPT ![th] = r]
            /\ geo_cache' = Store(geo_cache, a, Entry(r.value, r.msgs, now))
    /\ UNCHANGED <<now, pos, details_cache, comps_cache>>

\* the memo read of th's call c of get_property_details or get_comps, and
\* what follows it: the stored value on a hit; on a miss the wait for the
\* thread that is computing the key, or the body of the function up to the
\* sleep of its fetch (for get_comps, up to its URL statement, where it ends)
Lookup(th, c) ==
    LET memo == IF c.fn = "get_property_details" THEN details_cache ELSE comps_cache
    IN  IF Hit(memo, Key(c), now)
        THEN /\ ret' = [ret EXCEPT ![th] = Replay(memo[Key(c)])]
             /\ pos' = [pos EXCEPT ![th] = Outside]
        ELSE IF Computing(c)
        THEN /\ ret' = [ret EXCEPT ![th] = Pending]
             /\ pos' = [pos EXCEPT ![th] = Waiting]
        ELSE IF c.fn = "get_property_details" \/ CompsFetches(c.t, c.address)
        THEN /\ ret' = [ret EXCEPT ![th] = Pending]
             /\ pos' = [pos EXCEPT ![th] = Sleeping(FetchDelay(now))]
        ELSE /\ ret' = [ret EXCEPT ![th] = search_url(c.t, c.address)]
             /\ pos' = [pos EXCEPT ![th] = Outside]

\* th calls get_property_details(a)
MemoGetPropertyDetails(th, a) ==
    /\ pos[th] = Outside
    /\ call' = [call EXCEPT ![th] = [fn |-> "get_property_details", address |-> a, at |-> now]]
    /\ Lookup(th, call'[th])
    /\ UNCHANGED <<now, geo_cache, details_cache, comps_cache>>

\* th calls get_comps(t), the address input holding a
MemoGetComps(th, t, a) ==
    /\ pos[th] = Outside
    /\ call' = [call EXCEPT ![th] = [fn |-> "get_comps", t |-> t, address |-> a, at |-> now]]
    /\ Lookup(th, call'[th])
    /\ UNCHANGED <<now, geo_cache, details_cache, comps_cache>>

\* the key th waited for is free: th reads the memo again
MemoAcquire(th) ==
    /\ pos[th] = Waiting
    /\ ~Computing(call[th])
    /\ Lookup(th, call[th])
    /\ UNCHANGED <<now, call, geo_cache, details_cache, comps_cache>>

\* th has slept: it sends its request (line 35), the function goes on with
\* the response to its end, and what it returns is stored; nothing is
\* stored when it raises
MemoRequest(th) ==
    /\ pos[th].at = "sleep" /\ now >= pos[th].until
    /\ \E resp \in (IF call[th].fn = "get_comps" THEN MemoSearchResponses ELSE MemoResponses) :
       \E r \in {IF call[th].fn = "get_property_details"
                 THEN DetailsOutcomes[call[th].address][resp]
                 ELSE get_comps(call[th].t, call[th].address, resp)} :
           /\ ret' = [ret EXCEPT ![th] = r]
           /\ details_cache' =
                  IF r.kind = "return" /\ call[th].fn = "get_property_details"
                  THEN Store(details_cache, Key(call[th]), Entry(r.value, r.msgs, now))
                  ELSE details_cache
           /\ comps_cache' =
                  IF r.kind = "return" /\ call[th].fn = "get_comps"
                  THEN Store(comps_cache, Key(call[th]), Entry(r.value, r.msgs, now))
                  ELSE comps_cache
    /\ pos' = [pos EXCEPT ![th] = Outside]
    /\ UNCHANGED <<now, call, geo_cache>>

\* half an hour passes, between the calls and between the runs
Tick ==
    /\ \A th \in Threads : pos[th] = Outside /\ pc[th] \in {"idle", "stopped", "raised", "done"}
    /\ now \div (TTL \div 2) < MaxTicks
    /\ now' = now + TTL \div 2
    /\ UNCHANGED <<formVars, memoVars, history, pos, log, call, ret>>

\* the events of a step that made or resumed a call: the sleep, if the
\* thread went to sleep
StepEvents(th) == IF pos'[th].at = "sleep" THEN SleepEvents ELSE <<>>

\* the call of th, if this step ended it, is added to the calls that have
\* ended: a call that returns without a request was served from the memo
Record(th, requests) ==
    history' =
        IF ret'[th] = Pending THEN history
        ELSE Append(history,
                 [fn |-> call'[th].fn, key |-> Key(call'[th]), at |-> call'[th].at,
                  requests |-> requests,
                  kind |-> IF requests = 0 /\ ret'[th].kind = "return"
                           THEN "hit" ELSE ret'[th].kind])

CachedGeocodeAddress(th, a) ==
    /\ Started < MaxCalls
    /\ MemoGeocodeAddress(th, a)
    /\ Record(th, IF Hit(geo_cache, a, now) THEN 0 ELSE 1)
    /\ log' = [log EXCEPT ![th] = <<>>]
    /\ UNCHANGED formVars

CachedGetPropertyDetails(th, a) ==
    /\ Started < MaxCalls
    /\ MemoGetPropertyDetails(th, a)
    /\ Record(th, 0)
    /\ log' = [log EXCEPT ![th] = StepEvents(th)]
    /\ UNCHANGED formVars

CachedGetComps(th, t, a) ==
    /\ Started < MaxCalls
    /\ MemoGetComps(th, t, a)
    /\ Record(th, 0)
    /\ log' = [log EXCEPT ![th] = StepEvents(th)]
    /\ UNCHANGED formVars

CachedAcquire(th) ==
    /\ MemoAcquire(th)
    /\ Record(th, 0)
    /\ log' = [log EXCEPT ![th] = @ \o StepEvents(th)]
    /\ UNCHANGED formVars

CachedRequest(th) ==
    /\ MemoRequest(th)
    /\ Record(th, 1)
    /\ log' = [log EXCEPT ![th] = @ \o RequestEvents]
    /\ UNCHANGED formVars

MemoNext ==
    \/ Tick
    \/ Second
    \/ \E th \in Threads, a \in Addresses : CachedGeocodeAddress(th, a)
    \/ \E th \in Threads, a \in Addresses : CachedGetPropertyDetails(th, a)
    \/ \E th \in Threads, t \in Targets : CachedGetComps(th, t, "12 Oak St")
    \/ \E th \in Threads : CachedAcquire(th)
    \/ \E th \in Threads : CachedRequest(th)

MemoSpec == Init /\ [][MemoNext]_vars

(***************************************************************************)
(* The statements of lines 128-172 as they read, run by the thread of a    *)
(* session, the functions being called as their defs read.  log holds the  *)
(* events of the session's run and msgs what it has shown; ret holds what  *)
(* its last call returned, so prop_details at line 139.                    *)
(***************************************************************************)
\* lines 134, 162, 164 and 166
GeocodingFailed == ErrorMsg("Geocoding failed. Check address.")
\* f"{arv:,.0f}": the whole number nearest to a finite arv, the even one of two
WholeDollars(arv) ==
    LET q == arv.n \div Pow10(arv.s)
        r == arv.n % Pow10(arv.s)
    IN  IF 2 * r > Pow10(arv.s) \/ (2 * r = Pow10(arv.s) /\ q % 2 = 1) THEN q + 1 ELSE q

Metric(arv) ==
    [level |-> "metric", text |-> "Estimated ARV (Median Sold Price)",
     value |-> WholeDollars(arv)]
BasedOn(n) == [level |-> "info", text |-> "Based on {len(comps_df)} comps.", value |-> n]
NoComps == WarningMsg("No matching comps found. Try a broader area or check for blocks.")

\* bool(x) of a coordinate: None and 0.0 are false
Truthy(x) == x.some /\ x.v # Zero

\* lines 128-130: a run of the script in session s, a in the address input,
\* the button pressed or not; without both, line 172 is all that is left of
\* the run
Click(s, a, c) ==
    /\ pc[s] \in {"idle", "stopped", "raised", "done"}
    /\ runs < MaxClicks
    /\ runs' = runs + 1
    /\ address' = [address EXCEPT ![s] = a]
    /\ clicked' = [clicked EXCEPT ![s] = c]
    /\ pc' = [pc EXCEPT ![s] = IF c /\ a # "" THEN "geocode" ELSE "done"]
    /\ log' = [log EXCEPT ![s] = <<>>]
    /\ msgs' = [msgs EXCEPT ![s] = <<>>]
    /\ UNCHANGED <<now, memoVars, history, pos, call, ret>>

\* lines 132-135: lat, lon = geocode_address(address); if not lat or not lon
Geocode(s) ==
    /\ pc[s] = "geocode"
    /\ MemoGeocodeAddress(s, address[s])
    /\ \E r \in {ret'[s]} :
       IF ~Truthy(r.value[1]) \/ ~Truthy(r.value[2])
       THEN /\ msgs' = [msgs EXCEPT ![s] = @ \o r.msgs \o <<GeocodingFailed>>]
            /\ log' = [log EXCEPT ![s] = @ \o <<Event("call", "geocode_address"),
                                                 Event("return", "geocode_address")>>
                                             \o <<Event("stop", "<module>")>>]
            /\ pc' = [pc EXCEPT ![s] = "stopped"]
       ELSE /\ msgs' = [msgs EXCEPT ![s] = @ \o r.msgs]
            /\ log' = [log EXCEPT ![s] = @ \o <<Event("call", "geocode_address"),
                                                 Event("return", "geocode_address")>>]
            /\ pc' = [pc EXCEPT ![s] = "details"]
    /\ UNCHANGED <<address, clicked, runs, history>>

\* lines 152-157: the arguments of get_comps
CompsArgs(d) ==
    Target(d.latitude, d.longitude, d.beds, d.baths, d.sq_ft, d.lot_size, d.year_built)

\* lines 159-168: what is shown of the comps
Estimate(comps_df) ==
    IF ~IsEmptyFrame(comps_df)
    THEN <<Metric(calculate_arv(comps_df)), BasedOn(Len(comps_df.rows))>>
    ELSE <<NoComps>>

\* lines 139-149 and 169-170: the call of get_property_details has ended
\* with r; if prop_details the record is written out, else st.stop()
AfterDetails(s, evs, r) ==
    /\ log' = [log EXCEPT ![s] = @ \o evs \o <<Event(r.kind, "get_property_details")>>
                                     \o (IF r.kind = "return" /\ r.value = EmptyDict
                                         THEN <<Event("stop", "<module>")>>
                                         ELSE <<>>)]
    /\ msgs' = [msgs EXCEPT ![s] = @ \o (IF r.kind = "return" THEN r.msgs ELSE <<>>)]
    /\ pc' = [pc EXCEPT ![s] = IF r.kind = "raise" THEN "raised"
                               ELSE IF r.value = EmptyDict THEN "stopped" ELSE "comps"]

\* lines 159-168 and 172: the call of get_comps has ended with r; the
\* estimate or the warning
AfterComps(s, evs, r) ==
    /\ log' = [log EXCEPT ![s] = @ \o evs \o <<Event(r.kind, "get_comps")>>]
    /\ msgs' = [msgs EXCEPT ![s] = @ \o (IF r.kind = "return"
                                         THEN r.msgs \o Estimate(r.value) ELSE <<>>)]
    /\ pc' = [pc EXCEPT ![s] = IF r.kind = "raise" THEN "raised" ELSE "done"]

\* the handler after a step of the call it is making: it goes on when the
\* call has ended, and stays where it is while the call waits
Resume(s, evs) ==
    \E r \in {ret'[s]} :
        IF r = Pending
        THEN /\ log' = [log EXCEPT ![s] = @ \o evs \o StepEvents(s)]
             /\ UNCHANGED <<pc, msgs>>
        ELSE IF pc[s] = "details" THEN AfterDetails(s, evs, r)
        ELSE AfterComps(s, evs, r)

\* line 137: prop_details = get_property_details(address)
Details(s) ==
    /\ pc[s] = "details"
    /\ MemoGetPropertyDetails(s, address[s])
    /\ Resume(s, <<Event("call", "get_property_details")>>)
    /\ UNCHANGED <<address, clicked, runs, history>>

\* lines 151-157: comps_df = get_comps(...)
Comps(s) ==
    /\ pc[s] = "comps"
    /\ MemoGetComps(s, CompsArgs(ret[s].value), address[s])
    /\ Resume(s, <<Event("call", "get_comps")>>)
    /\ UNCHANGED <<address, clicked, runs, history>>

\* the call s is making stops waiting for another thread's computation
Acquire(s) ==
    /\ pc[s] \in {"details", "comps"}
    /\ MemoAcquire(s)
    /\ Resume(s, <<>>)
    /\ UNCHANGED <<address, clicked, runs, history>>

\* the call s is making wakes from its sleep, sends its request and ends
Fetch(s) ==
    /\ pc[s] \in {"details", "comps"}
    /\ MemoRequest(s)
    /\ Resume(s, RequestEvents)
    /\ UNCHANGED <<address, clicked, runs, history>>

HandlerNext ==
    \/ Tick
    \/ Second
    \/ \E s \in Threads, a \in Addresses \cup {""}, c \in BOOLEAN : Click(s, a, c)
    \/ \E s \in Threads : Geocode(s)
    \/ \E s \in Threads : Details(s)
    \/ \E s \in Threads : Comps(s)
    \/ \E s \in Threads : Acquire(s)
    \/ \E s \in Threads : Fetch(s)

HandlerSpec == Init /\ [][HandlerNext]_vars

(***************************************************************************)
(* The file as it is run: in a session, with a text in the address input   *)
(* and the button pressed or not.  The file is compiled before its first   *)
(* statement is executed, and line 82 does not compile, so a run ends      *)
(* there, whatever its inputs: nothing is looked up, fetched or shown.     *)
(***************************************************************************)
\* what compiling the file gives
Compile == IF TemplateOk THEN "ok" ELSE "SyntaxError"

\* one run of the file in session s, a in the address input, the button
\* pressed or not
Run(s, a, c) ==
    /\ runs < MaxRuns
    /\ Compile = "SyntaxError"
    /\ address' = [address EXCEPT ![s] = a]
    /\ clicked' = [clicked EXCEPT ![s] = c]
    /\ pc' = [pc EXCEPT ![s] = "raised"]
    /\ log' = [log EXCEPT ![s] = <<Event("raise", "<module>")>>]
    /\ msgs' = [msgs EXCEPT ![s] = <<>>]
    /\ runs' = runs + 1
    /\ UNCHANGED <<now, memoVars, history, pos, call, ret>>

Next ==
    \/ Tick
    \/ \E s \in Threads, a \in Addresses \cup {""}, c \in BOOLEAN : Run(s, a, c)

Spec == Init /\ [][Next]_vars

(***************************************************************************)
(* The claims.                                                             *)
(***************************************************************************)
Returned(th, fn) == call[th].fn = fn /\ ret[th] # Pending /\ ret[th].kind = "return"
Ended(th, fn) == call[th].fn = fn /\ ret[th] # Pending

CountBelow(xs, x) == Cardinality({i \in 1..Len(xs) : xs[i] < x})
CountUpTo(xs, x) == Cardinality({i \in 1..Len(xs) : xs[i] <= x})

\* the k-th smallest of xs, by counting
KthSmallest(xs, k) ==
    CHOOSE x \in {xs[i] : i \in 1..Len(xs)} :
        CountBelow(xs, x) < k /\ CountUpTo(xs, x) >= k

\* the float that is half the whole number m
HalfOf(m) == IF m % 2 = 0 THEN Float(m \div 2, 0) ELSE Float(5 * m, 1)

\* C1: calculate_arv returns the median of the sold prices: the middle one
\* of an odd number, the mean of the two middle ones of an even number
\* (250000 for 200000, 250000, 300000; 150000 for 100000, 200000), and 0
\* for an empty table or one without a "Sold Price" column.
C1_Median ==
    \A th \in Threads :
    Ended(th, "calculate_arv") =>
        LET df == call[th].comps_df
            n  == Len(df.rows)
            ps == [i \in 1..n |-> df.rows[i]["Sold Price"]]
        IN  /\ ret[th].kind = "return"
            /\ IF n = 0 \/ "Sold Price" \notin df.columns
               THEN ret[th].value = Float(0, 0)
               ELSE IF n % 2 = 1
               THEN ret[th].value = Float(KthSmallest(ps, (n + 1) \div 2), 0)
               ELSE ret[th].value =
                        HalfOf(KthSmallest(ps, n \div 2) + KthSmallest(ps, n \div 2 + 1))
            /\ (n = 3 /\ "Sold Price" \in df.columns
                  /\ ps = <<200000, 250000, 300000>>) => ret[th].value = Float(250000, 0)
            /\ (n = 2 /\ "Sold Price" \in df.columns
                  /\ ps = <<100000, 200000>>) => ret[th].value = Float(150000, 0)

C1_Witness ==
    \E th \in Threads :
        /\ Returned(th, "calculate_arv")
        /\ call[th].comps_df = DataFrame(<<PriceRow(300000), PriceRow(100000)>>)
        /\ ret[th].value = Float(200000, 0)

\* the rows the claim expects of a page: the cards that pass, in page order
RECURSIVE KeptRows(_, _)
KeptRows(cards, t) ==
    IF cards = <<>> THEN <<>>
    ELSE LET e == ParseCard(Head(cards))
             b == e.baths_comp
             keep == /\ e.beds_comp - t.beds \in (0 - 1)..1
                     /\ b.kind = "fin"
                     /\ b.n - t.baths * Pow10(b.s) \in (0 - Pow10(b.s))..Pow10(b.s)
                     /\ 10 * e.sq_ft_comp \in (8 * t.sq_ft)..(12 * t.sq_ft)
                     /\ Len(e.sold_date) > 0
                     /\ \E i \in 1..(Len(e.sold_date) - 3) :
                            SubSeq(e.sold_date, i, i + 3) = "2025"
         IN  (IF keep THEN <<CompRow(e)>> ELSE <<>>) \o KeptRows(Tail(cards), t)

AllCardsParse(resp) ==
    \A i \in 1..Len(find_all(resp.soup)) : ParseCard(find_all(resp.soup)[i]).exc = ""

\* C2: for every target and every results page, get_comps returns the
\* result entries that pass the similarity filter (beds within 1, baths
\* within 1, square footage within 0.8x to 1.2x, a sold date carrying the
\* year token), in page order, and no others.
C2_FilteredSubsequence ==
    \A th \in Threads :
    (Ended(th, "get_comps") /\ call[th].resp.status = HTTP_OK /\ call[th].resp.text # ""
        /\ AllCardsParse(call[th].resp) /\ call[th].t.lat.some /\ call[th].t.lon.some) =>
        /\ ret[th].kind = "return"
        /\ ret[th].value.rows = KeptRows(find_all(call[th].resp.soup), call[th].t)

NoPatternMatches(html) ==
    /\ ~SearchCount(html, "bd").found
    /\ ~SearchCount(html, "ba").found
    /\ ~SearchSqft(html).found
    /\ ~SearchLot(html).found
    /\ ~SearchBuilt(html).found
    /\ ~SearchCoord(html, "latitude").found
    /\ ~SearchCoord(html, "longitude").found

\* C7: given page content in which no field pattern matches,
\* get_property_details returns a record with beds, baths, sq_ft, lot_size
\* and year_built all zero and latitude and longitude absent, and does not
\* raise; and in every record it returns, a field whose own pattern has no
\* match has its default (zero, or absent for a coordinate).
C7_NoMatchDefaults ==
    \A th \in Threads :
    (Ended(th, "get_property_details") /\ call[th].resp.status = HTTP_OK
        /\ call[th].resp.text # "") =>
        LET html == call[th].resp.text
            d    == ret[th].value
        IN  /\ NoPatternMatches(html) =>
                /\ ret[th].kind = "return"
                /\ DOMAIN d # {}
                /\ d.beds = 0 /\ d.baths = 0 /\ d.sq_ft = 0
                /\ d.lot_size = 0 /\ d.year_built = 0
                /\ d.latitude = None /\ d.longitude = None
            /\ ret[th].kind = "return" =>
                /\ ~SearchCount(html, "bd").found => d.beds = 0
                /\ ~SearchCount(html, "ba").found => d.baths = 0
                /\ ~SearchSqft(html).found => d.sq_ft = 0
                /\ ~SearchLot(html).found => d.lot_size = 0
                /\ ~SearchBuilt(html).found => d.year_built = 0
                /\ ~SearchCoord(html, "latitude").found => d.latitude = None
                /\ ~SearchCoord(html, "longitude").found => d.longitude = None

C7_Witness ==
    \E th \in Threads :
        /\ Returned(th, "get_property_details")
        /\ call[th].resp.text = "for sale by owner | Built in 1990, lot 0.25 acres"
        /\ ret[th].value.beds = 0 /\ ret[th].value.year_built = 0
        /\ ret[th].value.latitude = None

\* C8: the search URL carries each value of the target in the slot meant
\* for it: bd and ba the exact counts, sqft and lot the 0.8x to 1.2x
\* ranges, yb the range year_built-10 to year_built+10, west = lon-0.01,
\* east = lon+0.01, south = lat-0.01, north = lat+0.01.
C8_UrlSlots ==
    \A th \in Threads :
    (call[th].fn = "get_comps" /\ call[th].t.lat.some /\ call[th].t.lon.some) =>
        LET t == call[th].t
            u == search_url(t, call[th].address)
        IN  /\ u.kind = "return"
            /\ u.value["bd"] = IntVal(t.beds)
            /\ u.value["ba"] = IntVal(t.baths)
            /\ u.value["sqft"] = RangeVal(t.sq_ft)
            /\ u.value["lot"] = RangeVal(t.lot_size)
            /\ u.value["west"] = FloatVal(t.lon.v, 0 - 1)
            /\ u.value["east"] = FloatVal(t.lon.v, 1)
            /\ u.value["south"] = FloatVal(t.lat.v, 0 - 1)
            /\ u.value["north"] = FloatVal(t.lat.v, 1)

\* C10: every non-empty record get_property_details returns has latitude
\* and longitude both present or both absent, and no negative numeric field.
C10_CoordsTogether ==
    \A th \in Threads :
    (Returned(th, "get_property_details") /\ DOMAIN ret[th].value # {}) =>
        LET d == ret[th].value
        IN  /\ d.latitude.some <=> d.longitude.some
            /\ d.beds >= 0 /\ d.baths >= 0 /\ d.sq_ft >= 0
            /\ d.lot_size >= 0 /\ d.year_built >= 0

\* C4: when a page fetch gets a non-success status, fetch_zillow_page
\* returns empty content after showing one error, and the extractor that
\* asked for it returns its empty result (get_property_details an empty
\* record, get_comps an empty collection) without raising, that one error
\* being the only one shown.
C4_FailedFetch ==
    \A th \in Threads :
    (call[th].fn \in {"fetch_zillow_page", "get_property_details", "get_comps"}
        /\ call[th].resp.status # HTTP_OK) =>
        /\ fetch_zillow_page(call[th].resp) = [text |-> "", msgs |-> <<FetchError>>]
        /\ ret[th] # Pending =>
               /\ ret[th].kind = "return"
               /\ ret[th].msgs = <<FetchError>>
               /\ call[th].fn = "fetch_zillow_page" => ret[th].value = ""
               /\ call[th].fn = "get_property_details" => ret[th].value = EmptyDict
               /\ call[th].fn = "get_comps" => ret[th].value = DataFrame(<<>>)

\* C3: a memoized call made again with the same arguments inside the window
\* of a call that went to the network issues no second request; two
\* get_property_details calls with the same address inside the window make
\* one page fetch.
C3_SecondCallNoRequest ==
    \A i, j \in 1..Len(history) :
        (/\ i < j
         /\ history[i].fn = history[j].fn
         /\ history[i].key = history[j].key
         /\ history[i].requests = 1
         /\ history[j].at - history[i].at < TTL) => history[j].requests = 0

Happened(s, ev, fn) == \E i \in 1..Len(log[s]) : log[s][i] = Event(ev, fn)
Shown(s, m) == \E i \in 1..Len(msgs[s]) : msgs[s][i] = m

\* a run for which the button was pressed with an address in the input
ClickedRun(s) == pc[s] # "idle" /\ clicked[s] /\ address[s] # ""

\* C5: only a geocoding failure halts a run before the comp search: a run
\* that does not reach the comp search has reported that geocoding failed.
C5_OnlyGeocodingHalts ==
    \A s \in Threads :
        (ClickedRun(s) /\ ~Happened(s, "call", "get_comps")) => Shown(s, GeocodingFailed)

\* the function that is running at event i of s's run: that of the last
\* call before it
Caller(s, i) ==
    LET C == {k \in 1..i : log[s][k].ev = "call"}
    IN  log[s][CHOOSE k \in C : \A m \in C : m <= k].fn

\* C6: in a run, the property extractor is called, and has returned, before
\* the comp search is called; every page request comes right after the
\* fetcher's sleep; and of two page requests the first is the target page's
\* and is over (its extractor has returned) before the comp search's.
C6_Ordering ==
    \A s \in Threads :
    /\ \A i \in 1..Len(log[s]) :
           log[s][i] = Event("call", "get_comps") =>
               \E j \in 1..(i - 1) :
                   /\ log[s][j] = Event("return", "get_property_details")
                   /\ \E k \in 1..(j - 1) : log[s][k] = Event("call", "get_property_details")
    /\ pc[s] = "comps" => Happened(s, "return", "get_property_details")
    /\ \A i \in 1..Len(log[s]) :
           log[s][i].ev = "GET" =>
               i > 1 /\ log[s][i - 1] = Event("sleep", "fetch_zillow_page")
    /\ \A i, j \in 1..Len(log[s]) :
           (i < j /\ log[s][i].ev = "GET" /\ log[s][j].ev = "GET") =>
               /\ Caller(s, i) = "get_property_details"
               /\ Caller(s, j) = "get_comps"
               /\ \E k \in (i + 1)..(j - 1) :
                      log[s][k] = Event("return", "get_property_details")

\* a run for an address that geocoded, whose extractor slept, fetched the
\* target page and returned, and whose comp search was then called
C6_Witness ==
    \E s \in Threads :
        /\ Happened(s, "return", "geocode_address")
        /\ Happened(s, "sleep", "fetch_zillow_page")
        /\ Happened(s, "GET", "fetch_zillow_page")
        /\ Happened(s, "return", "get_property_details")
        /\ Happened(s, "call", "get_comps")

\* C9: but for the stop after a geocoding failure, no run ends with an
\* exception.
C9_NoException == \A s \in Threads : pc[s] # "raised"

=============================================================================
